---------------------------- MODULE Spec2Model ----------------------------
(***************************************************************************)
(* Model of convert_menu.py (MenuConverter): the pipeline                  *)
(*   load_pos_mapping -> scan_menu_items -> convert_to_pos_format          *)
(*   -> save_pos_data -> generate_mapping_report                           *)
(* together with the pure functions parse_menu_item, validate_menu_item    *)
(* and extract_category.                                                   *)
(*                                                                         *)
(* Representation.  A Python dict is a function whose DOMAIN is its key    *)
(* set.  A value loaded from YAML is a tagged record: [t |-> "null"],      *)
(* [t |-> "int", n |-> Int] or [t |-> "str", s |-> sequence of one-char     *)
(* strings].  A text file is the sequence of its lines (content.split of   *)
(* "\n").  A Python float is the exact decimal [neg, num, exp]: num / 10^exp *)
(* with no trailing zero in the fraction, and neg the sign bit, which is   *)
(* what tells -0.0 (neg, num = 0) from 0.0.                                *)
(***************************************************************************)
EXTENDS Integers, Sequences, FiniteSets, TLC

\* ------------------------------------------------------------------ bounds
MaxPriceLen == 3      \* longest price string handed to validate_menu_item
MaxLines == 5         \* longest file text (in lines) handed to parse_menu_item
MaxFiles == 2         \* most content files in one scanned tree

\* ------------------------------------------------------- Python primitives
EmptyDict == [key \in {} |-> 0]

DictGet(d, key, default) == IF key \in DOMAIN d THEN d[key] ELSE default

DictSet(d, key, val) == (key :> val) @@ d

Null == [t |-> "null"]
Str(s) == [t |-> "str", s |-> s]
Int_(n) == [t |-> "int", n |-> n]

\* bool(v) for a YAML value
Truthy(v) ==
  CASE v.t = "null" -> FALSE
    [] v.t = "str" -> v.s # <<>>
    [] v.t = "int" -> v.n # 0

Digits == <<"0", "1", "2", "3", "4", "5", "6", "7", "8", "9">>
DigitSet == {Digits[j] : j \in 1..10}
DigitVal(c) == (CHOOSE j \in 1..10 : Digits[j] = c) - 1

RECURSIVE NatToChars(_)
NatToChars(n) ==
  IF n < 10 THEN <<Digits[n + 1]>>
  ELSE Append(NatToChars(n \div 10), Digits[(n % 10) + 1])

\* str(v) for a YAML value
PyStr(v) ==
  CASE v.t = "null" -> <<"N", "o", "n", "e">>
    [] v.t = "str" -> v.s
    [] v.t = "int" -> IF v.n < 0 THEN <<"-">> \o NatToChars(0 - v.n)
                      ELSE NatToChars(v.n)

\* s.replace(ch, '')
RECURSIVE Remove(_, _)
Remove(s, ch) ==
  IF s = <<>> THEN <<>>
  ELSE IF Head(s) = ch THEN Remove(Tail(s), ch)
  ELSE <<Head(s)>> \o Remove(Tail(s), ch)

RECURSIVE DigitsToNat(_)
DigitsToNat(s) ==
  IF s = <<>> THEN 0
  ELSE 10 * DigitsToNat(SubSeq(s, 1, Len(s) - 1)) + DigitVal(s[Len(s)])

\* the float of sign bit neg and magnitude mag / 10^exp
RECURSIVE Normalise(_, _, _)
Normalise(neg, mag, exp) ==
  IF exp > 0 /\ mag % 10 = 0 THEN Normalise(neg, mag \div 10, exp - 1)
  ELSE [neg |-> neg, num |-> IF neg THEN 0 - mag ELSE mag, exp |-> exp]

\* float(s) on strings over digits, sign, '.' and other printable characters
\* (no whitespace, exponent, underscore, "inf" or "nan"): [ok, val], with
\* ok = FALSE standing for ValueError.  A leading '-' sets the sign bit, also
\* of a zero: float('-0') is -0.0.
PyFloat(s) ==
  LET signed == s # <<>> /\ s[1] \in {"-", "+"}
      body == IF signed THEN Tail(s) ELSE s
      dots == {j \in DOMAIN body : body[j] = "."}
      wellformed == /\ \A j \in DOMAIN body : body[j] \in DigitSet \cup {"."}
                    /\ Cardinality(dots) <= 1
                    /\ \E j \in DOMAIN body : body[j] \in DigitSet
  IN IF ~wellformed THEN [ok |-> FALSE, val |-> Normalise(FALSE, 0, 0)]
     ELSE LET mant == DigitsToNat(Remove(body, "."))
              exp == IF dots = {} THEN 0
                     ELSE Len(body) - (CHOOSE j \in dots : TRUE)
              neg == signed /\ s[1] = "-"
          IN [ok |-> TRUE, val |-> Normalise(neg, mant, exp)]

\* ------------------------------------------------------ validate_menu_item
required_fields == <<"title", "price">>

\* variant: a falsy value passes, only a missing key is caught
MissingField_KeyOnly(item_data) ==
  LET bad == {j \in DOMAIN required_fields : required_fields[j] \notin DOMAIN item_data}
  IN IF bad = {} THEN 0 ELSE CHOOSE j \in bad : \A m \in bad : j <= m

\* first required field that is missing or falsy, 0 when there is none
MissingField(item_data) ==
  LET bad == {j \in DOMAIN required_fields :
                \/ required_fields[j] \notin DOMAIN item_data
                \/ ~Truthy(item_data[required_fields[j]])}
  IN IF bad = {} THEN 0 ELSE CHOOSE j \in bad : \A m \in bad : j <= m

\* float(str(item_data['price']).replace('$', '').replace(',', ''))
PriceOf(price) == PyFloat(Remove(Remove(PyStr(price), "$"), ","))

\* validate_menu_item: [ok, item, log]; item is item_data as the call leaves it
validate_menu_item(item_data) ==
  IF MissingField(item_data) # 0
  THEN [ok |-> FALSE, item |-> item_data,
        log |-> <<"WARNING missing " \o required_fields[MissingField(item_data)]>>]
  ELSE LET price == PriceOf(item_data["price"])
       IN IF price.ok
          THEN [ok |-> TRUE, item |-> DictSet(item_data, "price_numeric", price.val),
                log |-> <<>>]
          ELSE [ok |-> FALSE, item |-> item_data, log |-> <<"WARNING invalid price">>]


\* ------------------------------------------------------------ file texts
\* The lines a file text is made of.  Lines are atoms; what the code reads
\* off a line (str.startswith, yaml.safe_load) is tabulated per line.
Lines ==
  {"---", "--- x", "title: A", "title: \"\"", "price: 5", "price: -5",
   "price: 0", "price: $5", "", "body"}

\* line.startswith('---')
StartsWithDashes(line) == line \in {"---", "--- x"}

\* the lines yaml reads as one "key: value" entry of a block mapping
YamlEntry(line) ==
  CASE line = "title: A" -> [key |-> "title", val |-> Str(<<"A">>)]
    [] line = "title: \"\"" -> [key |-> "title", val |-> Str(<<>>)]
    [] line = "price: 5" -> [key |-> "price", val |-> Int_(5)]
    [] line = "price: -5" -> [key |-> "price", val |-> Int_(0 - 5)]
    [] line = "price: 0" -> [key |-> "price", val |-> Int_(0)]
    [] line = "price: $5" -> [key |-> "price", val |-> Str(<<"$", "5">>)]

EntryLines ==
  {"title: A", "title: \"\"", "price: 5", "price: -5", "price: 0", "price: $5"}

NotBlank(line) == line # ""

RECURSIVE MappingOf(_)
MappingOf(entries) ==
  IF entries = <<>> THEN EmptyDict
  ELSE LET e == YamlEntry(entries[Len(entries)])
           rest == MappingOf(SubSeq(entries, 1, Len(entries) - 1))
       IN DictSet(rest, e.key, e.val)

\* yaml.safe_load('\n'.join(front_matter)) for lines of Lines without a
\* '---' line: an empty document loads as None, a block mapping as a dict
\* (a repeated key keeps its last value), plain text as one str scalar, and
\* plain text mixed with mapping entries is a yaml.YAMLError.
yaml_safe_load(block) ==
  LET text == SelectSeq(block, NotBlank)
  IN IF text = <<>> THEN [kind |-> "none", d |-> EmptyDict]
     ELSE IF \A j \in DOMAIN text : text[j] \in EntryLines
     THEN [kind |-> "dict", d |-> MappingOf(text)]
     ELSE IF \A j \in DOMAIN text : text[j] \notin EntryLines
     THEN [kind |-> "str", d |-> EmptyDict]
     ELSE [kind |-> "YAMLError", d |-> EmptyDict]

RECURSIVE JoinWith(_, _)
JoinWith(parts, sep) ==
  IF parts = <<>> THEN ""
  ELSE IF Len(parts) = 1 THEN parts[1]
  ELSE parts[1] \o sep \o JoinWith(Tail(parts), sep)

\* '\n'.join(lines).strip(): no line of Lines has outer whitespace, so the
\* strip removes exactly the blank lines at both ends
RECURSIVE DropBlankHead(_)
DropBlankHead(ls) ==
  IF ls # <<>> /\ Head(ls) = "" THEN DropBlankHead(Tail(ls)) ELSE ls

RECURSIVE DropBlankTail(_)
DropBlankTail(ls) ==
  IF ls # <<>> /\ ls[Len(ls)] = "" THEN DropBlankTail(SubSeq(ls, 1, Len(ls) - 1))
  ELSE ls

JoinStrip(ls) == JoinWith(DropBlankTail(DropBlankHead(ls)), "\n")

\* --------------------------------------------------------- content files
\* A content file: the path parts under content_dir, the filename stem (the
\* name is stem + ".md"), whether open/read succeeds, and the text's lines.
content_dir == "content"

FileName(f) == f.stem \o ".md"

FilePath(f) == JoinWith(<<content_dir>> \o f.dir \o <<FileName(f)>>, "/")

\* content_file.name.startswith('_index.md'), for the stems of Stems
IsIndexFile(f) == f.stem = "_index"

\* ------------------------------------------------------- extract_category
extract_category(f) ==
  LET parts == f.dir \o <<FileName(f)>>
  IN IF Len(parts) > 1 THEN parts[1] ELSE "uncategorized"

\* -------------------------------------------------------- parse_menu_item
\* variant: content_start = i, the closing delimiter line is kept
RECURSIVE FrontMatterLoop_KeepsDelimiter(_, _, _, _)
FrontMatterLoop_KeepsDelimiter(lines, j, in_front_matter, front_matter) ==
  IF j > Len(lines)
  THEN [front_matter |-> front_matter, content_start |-> 0]
  ELSE IF StartsWithDashes(lines[j])
  THEN IF ~in_front_matter
       THEN FrontMatterLoop_KeepsDelimiter(lines, j + 1, TRUE, front_matter)
       ELSE [front_matter |-> front_matter, content_start |-> j - 1]
  ELSE IF in_front_matter
  THEN FrontMatterLoop_KeepsDelimiter(lines, j + 1, in_front_matter,
                                      Append(front_matter, lines[j]))
  ELSE FrontMatterLoop_KeepsDelimiter(lines, j + 1, in_front_matter, front_matter)

\* variant: a block that is never closed is dropped
RECURSIVE FrontMatterLoop_NeedsClosing(_, _, _, _)
FrontMatterLoop_NeedsClosing(lines, j, in_front_matter, front_matter) ==
  IF j > Len(lines)
  THEN [front_matter |-> <<>>, content_start |-> 0]
  ELSE IF StartsWithDashes(lines[j])
  THEN IF ~in_front_matter
       THEN FrontMatterLoop_NeedsClosing(lines, j + 1, TRUE, front_matter)
       ELSE [front_matter |-> front_matter, content_start |-> j]
  ELSE IF in_front_matter
  THEN FrontMatterLoop_NeedsClosing(lines, j + 1, in_front_matter,
                                    Append(front_matter, lines[j]))
  ELSE FrontMatterLoop_NeedsClosing(lines, j + 1, in_front_matter, front_matter)

\* the for loop of parse_menu_item from line j on
RECURSIVE FrontMatterLoop(_, _, _, _)
FrontMatterLoop(lines, j, in_front_matter, front_matter) ==
  IF j > Len(lines)
  THEN [front_matter |-> front_matter, content_start |-> 0]
  ELSE IF StartsWithDashes(lines[j])
  THEN IF ~in_front_matter
       THEN FrontMatterLoop(lines, j + 1, TRUE, front_matter)
       ELSE [front_matter |-> front_matter, content_start |-> j]
  ELSE IF in_front_matter
  THEN FrontMatterLoop(lines, j + 1, in_front_matter, Append(front_matter, lines[j]))
  ELSE FrontMatterLoop(lines, j + 1, in_front_matter, front_matter)

\* content_start counts from 0 as in the code: lines[content_start:] is
\* SubSeq(lines, content_start + 1, Len(lines))
ExtractFrontMatter(lines) == FrontMatterLoop(lines, 1, FALSE, <<>>)

NoItem == EmptyDict

\* parse_menu_item(file_path, content): [kind, item, log] with kind "item"
\* (item returned), "none" (None returned) or "raise" (an exception that is
\* no yaml.YAMLError leaves the function)
parse_menu_item(f, lines) ==
  IF ~StartsWithDashes(lines[1])
  THEN [kind |-> "none", item |-> NoItem, log |-> <<>>]
  ELSE
    LET fm == ExtractFrontMatter(lines)
        loaded == yaml_safe_load(fm.front_matter)
        content_lines == SubSeq(lines, fm.content_start + 1, Len(lines))
        item_data ==
          DictSet(DictSet(DictSet(DictSet(loaded.d,
            "slug", f.stem),
            "file_path", FilePath(f)),
            "category", extract_category(f)),
            "content", JoinStrip(content_lines))
        checked == validate_menu_item(item_data)
    IN IF fm.front_matter = <<>>
       THEN [kind |-> "none", item |-> NoItem, log |-> <<>>]
       ELSE IF loaded.kind = "YAMLError"
       THEN [kind |-> "none", item |-> NoItem, log |-> <<"ERROR parsing YAML">>]
       ELSE IF loaded.kind = "str"
       THEN [kind |-> "raise", item |-> NoItem, log |-> <<>>]
       ELSE IF ~checked.ok
       THEN [kind |-> "none", item |-> NoItem, log |-> checked.log]
       ELSE [kind |-> "item", item |-> checked.item, log |-> <<>>]


\* ------------------------------------------------------------------ state
VARIABLES
  files,          \* the *.md files content_dir.rglob yields, in scan order
  mapping_file,   \* data/pos-mapping.yaml: [exists, parses, data]
  menu_file,      \* data/menudata.yaml: [exists, parses, data]
  pos_mapping,    \* self.pos_mapping
  menu_data,      \* self.menu_data
  pc,             \* position in run_conversion
  scan_pos,       \* index of the next file of the scan loop
  menu_items,     \* the dict scan_menu_items builds, as its items in key order
  pos_items,      \* the table convert_to_pos_format returns
  out_files,      \* files written under data_dir: name -> what was written
  log,            \* the WARNING and ERROR records logged so far
  item_data,      \* argument of a lone validate_menu_item call
  validated,      \* its result
  content,        \* lines of the text given to a lone parse_menu_item call
  parsed          \* its result

vars ==
  <<files, mapping_file, menu_file, pos_mapping, menu_data, pc, scan_pos,
    menu_items, pos_items, out_files, log, item_data, validated, content, parsed>>

run_vars ==
  <<files, mapping_file, menu_file, pos_mapping, menu_data, pc, scan_pos,
    menu_items, pos_items, out_files, log>>

call_vars == <<item_data, validated, content, parsed>>

\* ------------------------------------------------ menu_items (ordered dict)
Slugs(menu) == {menu[j]["slug"] : j \in DOMAIN menu}

\* menu_items[slug], for slug in Slugs(menu)
MenuGet(menu, slug) == menu[CHOOSE j \in DOMAIN menu : menu[j]["slug"] = slug]

\* variant: a known key keeps its first value
MenuSet_FirstWins(menu, item) ==
  IF item["slug"] \in Slugs(menu) THEN menu ELSE Append(menu, item)

\* menu_items[item['slug']] = item: a new key goes last, a known key keeps
\* its place and takes the new value
MenuSet(menu, item) ==
  IF item["slug"] \in Slugs(menu)
  THEN [j \in DOMAIN menu |->
          IF menu[j]["slug"] = item["slug"] THEN item ELSE menu[j]]
  ELSE Append(menu, item)

\* ---------------------------------------------------- convert_to_pos_format
POS_SYSTEMS == <<"loyverse", "odoo">>

\* global_mappings.get(system, {}).get('items', {})
SystemMappings(mapping, system) ==
  DictGet(DictGet(DictGet(mapping, "global", EmptyDict),
                  system, EmptyDict), "items", EmptyDict)

\* variant: the fallback is the bare slug
PosId_BareSlug(mapping, system, slug) ==
  DictGet(SystemMappings(mapping, system), slug, slug)

\* <system>_global.get(slug, f"omg-sushi-{slug}")
PosId(mapping, system, slug) ==
  DictGet(SystemMappings(mapping, system), slug, "omg-sushi-" \o slug)

NoDescription == Str(<<>>)

LoyverseRecord(item, id) ==
  [name |-> item["title"],
   price |-> item["price_numeric"],
   description |-> DictGet(item, "description", NoDescription),
   category |-> item["category"],
   available |-> DictGet(item, "available", TRUE),
   sku |-> id,
   hugo_slug |-> item["slug"]]

OdooRecord(item, id) ==
  [name |-> item["title"],
   list_price |-> item["price_numeric"],
   description |-> DictGet(item, "description", NoDescription),
   categ_id |-> item["category"],
   active |-> DictGet(item, "available", TRUE),
   default_code |-> id,
   hugo_slug |-> item["slug"]]

\* one pass of the loop body: pos_items[system][id] = record
ConvertItem(table, mapping, item) ==
  LET loyverse_id == PosId(mapping, "loyverse", item["slug"])
      odoo_id == PosId(mapping, "odoo", item["slug"])
  IN [loyverse |-> DictSet(table.loyverse, loyverse_id,
                           LoyverseRecord(item, loyverse_id)),
      odoo |-> DictSet(table.odoo, odoo_id, OdooRecord(item, odoo_id))]

EmptyTable == [loyverse |-> EmptyDict, odoo |-> EmptyDict]

RECURSIVE ConvertLoop(_, _, _)
ConvertLoop(table, mapping, menu) ==
  IF menu = <<>> THEN table
  ELSE ConvertLoop(ConvertItem(table, mapping, Head(menu)), mapping, Tail(menu))

convert_to_pos_format(menu, mapping) == ConvertLoop(EmptyTable, mapping, menu)

\* ------------------------------------------------- generate_mapping_report
\* f"{price:.2f}" for a price with at most two decimals; the sign bit is
\* printed, so -0.0 gives "-0.00"
Format2f(val) ==
  LET cents == IF val.exp = 0 THEN val.num * 100
               ELSE IF val.exp = 1 THEN val.num * 10 ELSE val.num
      mag == IF cents < 0 THEN 0 - cents ELSE cents
  IN JoinWith((IF val.neg THEN <<"-">> ELSE <<>>) \o NatToChars(mag \div 100)
              \o <<".", Digits[((mag \div 10) % 10) + 1], Digits[(mag % 10) + 1]>>, "")

ReportRow(mapping, item) ==
  [slug |-> item["slug"],
   title |-> item["title"],
   category |-> item["category"],
   price |-> "$" \o Format2f(item["price_numeric"]),
   loyverse_mapped |-> item["slug"] \in DOMAIN SystemMappings(mapping, "loyverse"),
   odoo_mapped |-> item["slug"] \in DOMAIN SystemMappings(mapping, "odoo")]

MappingReport(mapping, menu) ==
  [total |-> Len(menu), rows |-> [j \in DOMAIN menu |-> ReportRow(mapping, menu[j])]]


\* ---------------------------------------------------------------- actions
NoResult == [kind |-> "idle"]

\* load_pos_mapping and load_menu_data: yaml.safe_load(f) or {} when the
\* file exists; a YAML error in either file leaves run_conversion uncaught
LoadConfig ==
  /\ pc = "load"
  /\ pos_mapping' = IF mapping_file.exists /\ mapping_file.parses
                    THEN mapping_file.data ELSE EmptyDict
  /\ menu_data' = IF (mapping_file.exists => mapping_file.parses)
                     /\ menu_file.exists /\ menu_file.parses
                  THEN menu_file.data ELSE EmptyDict
  /\ log' = IF mapping_file.exists THEN log
            ELSE Append(log, "WARNING POS mapping file not found")
  /\ pc' = IF \/ mapping_file.exists /\ ~mapping_file.parses
              \/ menu_file.exists /\ ~menu_file.parses
           THEN "raised" ELSE "scan"
  /\ UNCHANGED <<files, mapping_file, menu_file, scan_pos, menu_items,
                 pos_items, out_files>>
  /\ UNCHANGED call_vars

\* variant: the first file that raises ends the loop
ScanFile_Break ==
  /\ pc = "scan"
  /\ scan_pos <= Len(files)
  /\ LET f == files[scan_pos]
         r == parse_menu_item(f, f.lines)
     IN \/ /\ IsIndexFile(f)
           /\ scan_pos' = scan_pos + 1
           /\ UNCHANGED <<menu_items, log>>
        \/ /\ ~IsIndexFile(f)
           /\ ~f.readable \/ r.kind = "raise"
           /\ log' = Append(log, "ERROR processing " \o FilePath(f))
           /\ scan_pos' = Len(files) + 1
           /\ UNCHANGED menu_items
        \/ /\ ~IsIndexFile(f)
           /\ f.readable
           /\ r.kind = "none"
           /\ log' = log \o r.log
           /\ scan_pos' = scan_pos + 1
           /\ UNCHANGED menu_items
        \/ /\ ~IsIndexFile(f)
           /\ f.readable
           /\ r.kind = "item"
           /\ menu_items' = MenuSet(menu_items, r.item)
           /\ log' = log \o r.log
           /\ scan_pos' = scan_pos + 1
  /\ UNCHANGED <<files, mapping_file, menu_file, pos_mapping, menu_data, pc,
                 pos_items, out_files>>
  /\ UNCHANGED call_vars

\* one pass of the for loop of scan_menu_items
ScanFile ==
  /\ pc = "scan"
  /\ scan_pos <= Len(files)
  /\ LET f == files[scan_pos]
         r == parse_menu_item(f, f.lines)
     IN \/ /\ IsIndexFile(f)
           /\ UNCHANGED <<menu_items, log>>
        \/ /\ ~IsIndexFile(f)
           /\ ~f.readable
           /\ log' = Append(log, "ERROR processing " \o FilePath(f))
           /\ UNCHANGED menu_items
        \/ /\ ~IsIndexFile(f)
           /\ f.readable
           /\ r.kind = "raise"
           /\ log' = Append(log, "ERROR processing " \o FilePath(f))
           /\ UNCHANGED menu_items
        \/ /\ ~IsIndexFile(f)
           /\ f.readable
           /\ r.kind = "none"
           /\ log' = log \o r.log
           /\ UNCHANGED menu_items
        \/ /\ ~IsIndexFile(f)
           /\ f.readable
           /\ r.kind = "item"
           /\ menu_items' = MenuSet(menu_items, r.item)
           /\ log' = log \o r.log
  /\ scan_pos' = scan_pos + 1
  /\ UNCHANGED <<files, mapping_file, menu_file, pos_mapping, menu_data, pc,
                 pos_items, out_files>>
  /\ UNCHANGED call_vars

\* variant: run_conversion goes on with an empty dict
ScanReturn_NoCheck ==
  /\ pc = "scan"
  /\ scan_pos > Len(files)
  /\ pc' = "convert"
  /\ UNCHANGED <<files, mapping_file, menu_file, pos_mapping, menu_data,
                 scan_pos, menu_items, pos_items, out_files, log>>
  /\ UNCHANGED call_vars

\* the loop is over: scan_menu_items returns; run_conversion returns at once
\* when the dict is empty
ScanReturn ==
  /\ pc = "scan"
  /\ scan_pos > Len(files)
  /\ \/ /\ menu_items = <<>>
        /\ log' = Append(log, "WARNING No menu items found")
        /\ pc' = "done"
     \/ /\ menu_items # <<>>
        /\ UNCHANGED log
        /\ pc' = "convert"
  /\ UNCHANGED <<files, mapping_file, menu_file, pos_mapping, menu_data,
                 scan_pos, menu_items, pos_items, out_files>>
  /\ UNCHANGED call_vars

Convert ==
  /\ pc = "convert"
  /\ pos_items' = convert_to_pos_format(menu_items, pos_mapping)
  /\ pc' = "save"
  /\ UNCHANGED <<files, mapping_file, menu_file, pos_mapping, menu_data,
                 scan_pos, menu_items, out_files, log>>
  /\ UNCHANGED call_vars

\* save_pos_data: the combined table as YAML and as JSON, then one YAML
\* file per POS system holding that system's table alone
SavePosData ==
  /\ pc = "save"
  /\ out_files' =
       ("pos-menu-odoo.yaml" :> pos_items.odoo)
       @@ ("pos-menu-loyverse.yaml" :> pos_items.loyverse)
       @@ ("pos-menu-data.json" :> pos_items)
       @@ ("pos-menu-data.yaml" :> pos_items)
       @@ out_files
  /\ pc' = "report"
  /\ UNCHANGED <<files, mapping_file, menu_file, pos_mapping, menu_data,
                 scan_pos, menu_items, pos_items, log>>
  /\ UNCHANGED call_vars

GenerateMappingReport ==
  /\ pc = "report"
  /\ out_files' =
       ("mapping-report.md" :> MappingReport(pos_mapping, menu_items)) @@ out_files
  /\ pc' = "done"
  /\ UNCHANGED <<files, mapping_file, menu_file, pos_mapping, menu_data,
                 scan_pos, menu_items, pos_items, log>>
  /\ UNCHANGED call_vars

\* a lone call validate_menu_item(item_data)
Validate ==
  /\ pc = "validate"
  /\ validated' = validate_menu_item(item_data)
  /\ pc' = "done"
  /\ UNCHANGED <<files, mapping_file, menu_file, pos_mapping, menu_data,
                 scan_pos, menu_items, pos_items, out_files, log>>
  /\ UNCHANGED <<item_data, content, parsed>>

\* a lone call parse_menu_item(content/rolls/a.md, content)
ParsedFile == [dir |-> <<"rolls">>, stem |-> "a", readable |-> TRUE, lines |-> <<"">>]

Parse ==
  /\ pc = "parse"
  /\ parsed' = parse_menu_item(ParsedFile, content)
  /\ pc' = "done"
  /\ UNCHANGED <<files, mapping_file, menu_file, pos_mapping, menu_data,
                 scan_pos, menu_items, pos_items, out_files, log>>
  /\ UNCHANGED <<item_data, validated, content>>

\* ------------------------------------------------------------------ inputs
SeqsUpTo(S, n) == UNION {[1..m -> S] : m \in 0..n}

Stems == {"a", "b", "_index"}
Dirs == {<<>>, <<"rolls">>}

TValid == <<"---", "title: A", "price: $5", "---", "", "body", "">>
TOpen == <<"---", "title: A", "price: 5">>
TNoPrice == <<"---", "title: A", "---", "body">>
TEmptyTitle == <<"---", "title: \"\"", "price: 5", "---">>
TNegative == <<"---", "price: -5", "title: A", "---">>
TScalar == <<"---", "body", "---">>
Texts == {TValid, TOpen, TNoPrice, TEmptyTitle, TNegative, TScalar}

Unreadable == <<"">>

ContentFiles ==
  [dir : Dirs, stem : Stems, readable : {TRUE}, lines : Texts]
  \cup [dir : Dirs, stem : Stems, readable : {FALSE}, lines : {Unreadable}]

NoFile == [exists |-> FALSE, parses |-> FALSE, data |-> EmptyDict]
BadFile == [exists |-> TRUE, parses |-> FALSE, data |-> EmptyDict]
YamlFile(d) == [exists |-> TRUE, parses |-> TRUE, data |-> d]

\* {"global": {"loyverse": {"items": loyverse}, "odoo": {"items": odoo}}}
Mapping(loyverse, odoo) ==
  [global |-> [loyverse |-> [items |-> loyverse], odoo |-> [items |-> odoo]]]

PriorMenu == [menu |-> "prior"]

\* what data_dir, an existing directory, holds of the two input files
DataDirs ==
  {[mapping |-> NoFile, menu |-> NoFile],
   [mapping |-> BadFile, menu |-> NoFile],
   [mapping |-> YamlFile(Mapping(("a" :> "X"), EmptyDict)), menu |-> YamlFile(PriorMenu)],
   [mapping |-> YamlFile(EmptyDict), menu |-> BadFile]}

InitCalls ==
  /\ item_data = EmptyDict
  /\ validated = NoResult
  /\ content = <<"">>
  /\ parsed = NoResult

InitRun ==
  /\ pos_mapping = EmptyDict
  /\ menu_data = EmptyDict
  /\ scan_pos = 1
  /\ menu_items = <<>>
  /\ pos_items = EmptyTable
  /\ out_files = EmptyDict
  /\ log = <<>>

\* rglob yields every path once
DistinctPaths(fs) ==
  \A j, m \in DOMAIN fs : j # m => FilePath(fs[j]) # FilePath(fs[m])

\* run_conversion on a fresh MenuConverter
Init ==
  /\ files \in SeqsUpTo(ContentFiles, MaxFiles)
  /\ DistinctPaths(files)
  /\ \E dd \in DataDirs : mapping_file = dd.mapping /\ menu_file = dd.menu
  /\ pc = "load"
  /\ InitRun
  /\ InitCalls

Next ==
  \/ LoadConfig
  \/ ScanFile
  \/ ScanReturn
  \/ Convert
  \/ SavePosData
  \/ GenerateMappingReport

Spec == Init /\ [][Next]_vars


\* ---------------------------------------- run_conversion, mapping variety
\* The same run over files that all validate, under every mapping of the two
\* slugs to the identifiers of IdChoices, per system.
IdChoices == {"X", "omg-sushi-b"}

ItemMaps == UNION {[D -> IdChoices] : D \in SUBSET {"a", "b"}}

Mappings ==
  {Mapping(l, o) : l \in ItemMaps, o \in ItemMaps}
  \cup {EmptyDict,
        [global |-> EmptyDict],
        [global |-> [loyverse |-> EmptyDict]],
        [global |-> [odoo |-> [items |-> ("a" :> "X")]]]}

ValidFiles ==
  [dir : {<<"rolls">>}, stem : {"a", "b"}, readable : {TRUE}, lines : {TValid, TOpen}]

InitConvert ==
  /\ files \in SeqsUpTo(ValidFiles, MaxFiles)
  /\ DistinctPaths(files)
  /\ mapping_file \in {YamlFile(m) : m \in Mappings}
  /\ menu_file = NoFile
  /\ pc = "load"
  /\ InitRun
  /\ InitCalls

SpecConvert == InitConvert /\ [][Next]_vars

\* --------------------------------------------- lone validate_menu_item call
PriceChars == {"$", ",", "-", ".", "0", "5", "x"}
PriceInts == {0 - 5, 0, 5, 12}

Titles == {Null, Str(<<>>), Str(<<"A">>)}

Prices ==
  {Null} \cup {Int_(n) : n \in PriceInts}
  \cup {Str(str) : str \in SeqsUpTo(PriceChars, MaxPriceLen)}

\* the dict parse_menu_item hands over: slug is always set, title and price
\* are there when the front matter has them
ValidateInputs ==
  LET base == ("slug" :> "a")
  IN {base} \cup {DictSet(base, "title", t) : t \in Titles}
     \cup {DictSet(base, "price", p) : p \in Prices}
     \cup {DictSet(DictSet(base, "title", t), "price", p) : t \in Titles, p \in Prices}

InitValidate ==
  /\ files = <<>>
  /\ mapping_file = NoFile
  /\ menu_file = NoFile
  /\ pc = "validate"
  /\ InitRun
  /\ item_data \in ValidateInputs
  /\ validated = NoResult
  /\ content = <<"">>
  /\ parsed = NoResult

SpecValidate == InitValidate /\ [][Validate]_vars

\* ------------------------------------------------ lone parse_menu_item call
ParseLines == {"---", "--- x", "title: A", "title: \"\"", "price: 5", "", "body"}

InitParse ==
  /\ files = <<>>
  /\ mapping_file = NoFile
  /\ menu_file = NoFile
  /\ pc = "parse"
  /\ InitRun
  /\ item_data = EmptyDict
  /\ validated = NoResult
  /\ content \in SeqsUpTo(ParseLines, MaxLines) \ {<<>>}
  /\ parsed = NoResult

SpecParse == InitParse /\ [][Parse]_vars


\* ================================================================== claims
ScanReturned == pc \in {"convert", "save", "report", "done"}
Converted == pc \in {"save", "report", "done"}

\* the identifier a record carries: sku (loyverse), default_code (odoo)
RecordId(system, rec) == IF system = "loyverse" THEN rec.sku ELSE rec.default_code

SystemNames == {POS_SYSTEMS[j] : j \in DOMAIN POS_SYSTEMS}

\* the explicit mapping configured for a system and a slug, read off the
\* mapping file
HasExplicit(system, slug) ==
  /\ "global" \in DOMAIN mapping_file.data
  /\ system \in DOMAIN mapping_file.data["global"]
  /\ "items" \in DOMAIN mapping_file.data["global"][system]
  /\ slug \in DOMAIN mapping_file.data["global"][system]["items"]

ExpectedId(system, slug) ==
  IF HasExplicit(system, slug)
  THEN mapping_file.data["global"][system]["items"][slug]
  ELSE "omg-sushi-" \o slug

\* C1: after convert_to_pos_format, in each of the two POS tables every
\* record is filed under, and carries, the identifier that is the explicit
\* mapping of its slug for that system when one is configured and
\* "omg-sushi-" + slug otherwise; and every validated item has that record
\* unless a later item was given the same identifier.
C1_IdentifierIsMappingOrFallback ==
  Converted =>
    \A system \in SystemNames :
      /\ \A id \in DOMAIN pos_items[system] :
           LET rec == pos_items[system][id]
           IN /\ id = ExpectedId(system, rec.hugo_slug)
              /\ RecordId(system, rec) = id
      /\ \A j \in DOMAIN menu_items :
           LET slug == menu_items[j]["slug"]
               id == ExpectedId(system, slug)
           IN (\A m \in DOMAIN menu_items :
                 m > j => ExpectedId(system, menu_items[m]["slug"]) # id)
              => /\ id \in DOMAIN pos_items[system]
                 /\ pos_items[system][id].hugo_slug = slug

\* a run where one system has an explicitly mapped record and a fallback one
C1_Witness ==
  /\ pc = "done"
  /\ HasExplicit("loyverse", "a") /\ ~HasExplicit("loyverse", "b")
  /\ ~HasExplicit("odoo", "a")
  /\ "X" \in DOMAIN pos_items.loyverse
  /\ pos_items.loyverse["X"].hugo_slug = "a"
  /\ "omg-sushi-b" \in DOMAIN pos_items.loyverse
  /\ "omg-sushi-a" \in DOMAIN pos_items.odoo

\* C2 (as claimed): convert_to_pos_format never drops an item: each table
\* has exactly one record per input slug and as many records as items.
C2_OneRecordPerItem ==
  Converted =>
    \A system \in SystemNames :
      /\ \A slug \in Slugs(menu_items) :
           Cardinality({id \in DOMAIN pos_items[system] :
                          pos_items[system][id].hugo_slug = slug}) = 1
      /\ Cardinality(DOMAIN pos_items[system]) = Len(menu_items)


\* ------------------------------------------------------------ C3, C4
\* the front matter of a file as yaml loads it
FrontMatterOf(f) == yaml_safe_load(ExtractFrontMatter(f.lines).front_matter).d

\* a field is lacking: the key is missing or its value is empty
Lacks(d, field) ==
  \/ field \notin DOMAIN d
  \/ d[field].t = "null"
  \/ d[field].t = "str" /\ d[field].s = <<>>

LacksTitleOrPrice(f) ==
  Lacks(FrontMatterOf(f), "title") \/ Lacks(FrontMatterOf(f), "price")

TableSlugs(table) ==
  {table[id].hugo_slug : id \in DOMAIN table}

\* the slugs an output file of the given name speaks of
ArtifactSlugs(name) ==
  IF name \notin DOMAIN out_files THEN {}
  ELSE IF name = "mapping-report.md"
  THEN {out_files[name].rows[j].slug : j \in DOMAIN out_files[name].rows}
  ELSE IF name \in {"pos-menu-data.yaml", "pos-menu-data.json"}
  THEN UNION {TableSlugs(out_files[name][system]) : system \in DOMAIN out_files[name]}
  ELSE TableSlugs(out_files[name])

ArtifactNames ==
  {"pos-menu-data.yaml", "pos-menu-data.json", "pos-menu-loyverse.yaml",
   "pos-menu-odoo.yaml", "mapping-report.md"}

\* C3: a content file whose front matter lacks title or price yields no
\* stored item, and its slug is in an output artifact (combined YAML,
\* combined JSON, per-system files, report rows) only when another file of
\* the same stem, lacking neither, supplies it.
C3_LackingItemInNoArtifact ==
  \A j \in DOMAIN files :
    LacksTitleOrPrice(files[j]) =>
      /\ \A m \in DOMAIN menu_items :
           menu_items[m]["file_path"] # FilePath(files[j])
      /\ \A name \in ArtifactNames :
           files[j].stem \in ArtifactSlugs(name) =>
             \E m \in DOMAIN files :
               /\ m # j
               /\ files[m].stem = files[j].stem
               /\ ~LacksTitleOrPrice(files[m])
               /\ \E q \in DOMAIN menu_items :
                    menu_items[q]["file_path"] = FilePath(files[m])

\* a finished run that wrote every artifact from a tree holding a readable,
\* non-index file without a price
C3_Witness ==
  /\ pc = "done"
  /\ DOMAIN out_files = ArtifactNames
  /\ \E j \in DOMAIN files :
       /\ files[j].readable /\ ~IsIndexFile(files[j])
       /\ files[j].lines = TNoPrice
       /\ files[j].stem \notin ArtifactSlugs("mapping-report.md")
       /\ files[j].stem \notin ArtifactSlugs("pos-menu-data.json")

\* C4 (as claimed): every item of the working set has a non-empty title and
\* a price_numeric that is a parsed, non-negative number.
C4_ItemsValidNonNegative ==
  \A j \in DOMAIN menu_items :
    /\ "title" \in DOMAIN menu_items[j]
    /\ Truthy(menu_items[j]["title"])
    /\ "price_numeric" \in DOMAIN menu_items[j]
    /\ menu_items[j]["price_numeric"].num >= 0

\* ------------------------------------------------------------------ C5
\* C5 (as claimed): a record with a non-empty title and a price convertible
\* to a non-negative number, '$' and ',' stripped, is valid and gets that
\* number as price_numeric.
C5_ValidWhenTitleAndPriceConvert ==
  (/\ pc = "done"
   /\ ~Lacks(item_data, "title")
   /\ "price" \in DOMAIN item_data
   /\ item_data["price"].t \in {"str", "int"}
   /\ PriceOf(item_data["price"]).ok
   /\ PriceOf(item_data["price"]).val.num >= 0)
  => /\ validated.ok
     /\ validated.item["price_numeric"] = PriceOf(item_data["price"]).val


\* ------------------------------------------------------------ C6, C7, C9
\* the file is no index file, can be read, and parses and validates
YieldsItem(f) ==
  /\ ~IsIndexFile(f)
  /\ f.readable
  /\ parse_menu_item(f, f.lines).kind = "item"

\* C6: a file that cannot be read, parsed or validated does not end the
\* scan: the scan leaves run_conversion only by returning, it returns only
\* after the loop has passed every file, and the map it returns has the slug
\* of every non-index file that parses and validates.
C6_ScanSkipsAndContinues ==
  /\ pc = "raised" => scan_pos = 1
  /\ ScanReturned =>
       /\ scan_pos = Len(files) + 1
       /\ \A j \in DOMAIN files :
            YieldsItem(files[j]) => files[j].stem \in Slugs(menu_items)

\* a returned scan that met a failing file and stored a later file's item
C6_Witness ==
  /\ ScanReturned
  /\ \E j, m \in DOMAIN files :
       /\ j < m
       /\ ~IsIndexFile(files[j]) /\ ~YieldsItem(files[j])
       /\ YieldsItem(files[m])
       /\ files[m].stem \in Slugs(menu_items)
       /\ files[m].stem # files[j].stem

\* C7: when the scan returns no item, run_conversion ends there with the
\* warning, without raising: nothing is converted and no file is written.
C7_EmptyScanHalts ==
  /\ (scan_pos > 1 \/ ScanReturned) => pc # "raised"
  /\ (ScanReturned /\ menu_items = <<>>) =>
       /\ pc = "done"
       /\ log # <<>> /\ log[Len(log)] = "WARNING No menu items found"
       /\ pos_items = EmptyTable
       /\ out_files = EmptyDict

\* a run over a tree whose files were all skipped or rejected, halted
C7_Witness ==
  /\ pc = "done"
  /\ menu_items = <<>>
  /\ Len(files) = MaxFiles
  /\ out_files = EmptyDict

\* the last file in scan order among the non-index files with this stem
LastWithStem(slug) ==
  CHOOSE j \in DOMAIN files :
    /\ files[j].stem = slug /\ ~IsIndexFile(files[j])
    /\ \A m \in DOMAIN files :
         (files[m].stem = slug /\ ~IsIndexFile(files[m])) => m <= j

\* the last file in scan order among those with this stem that yield an item
LastYieldingWithStem(slug) ==
  CHOOSE j \in DOMAIN files :
    /\ files[j].stem = slug /\ YieldsItem(files[j])
    /\ \A m \in DOMAIN files :
         (files[m].stem = slug /\ YieldsItem(files[m])) => m <= j

\* C9 (as claimed): at the end of the scan the item stored under a slug is
\* the one produced from the last, in scan order, of the files with that stem.
C9_LastFileWins ==
  ScanReturned =>
    \A slug \in Slugs(menu_items) :
      MenuGet(menu_items, slug)["file_path"] = FilePath(files[LastWithStem(slug)])

\* C9 (amended): at the end of the scan the item stored under a slug is the
\* one produced from the last, in scan order, of the files with that stem
\* that parse and validate.
C9_LastValidFileWins ==
  ScanReturned =>
    \A slug \in Slugs(menu_items) :
      LET f == files[LastYieldingWithStem(slug)]
      IN /\ \E j \in DOMAIN files : files[j].stem = slug /\ YieldsItem(files[j])
         /\ MenuGet(menu_items, slug) = parse_menu_item(f, f.lines).item

\* two files of one stem both yield an item, and the items differ
C9_Witness ==
  /\ ScanReturned
  /\ \E j, m \in DOMAIN files :
       /\ j < m
       /\ files[j].stem = files[m].stem
       /\ YieldsItem(files[j]) /\ YieldsItem(files[m])
       /\ files[j].lines # files[m].lines
       /\ MenuGet(menu_items, files[m].stem)["file_path"] = FilePath(files[m])


\* ------------------------------------------------------------ C8, C10
\* the positions after the first of the lines that are delimiter lines
LaterDelimiters(lines) ==
  {j \in DOMAIN lines : j > 1 /\ StartsWithDashes(lines[j])}

SecondDelimiter(lines) ==
  CHOOSE j \in LaterDelimiters(lines) : \A m \in LaterDelimiters(lines) : j <= m

\* the front-matter keys of an item are those of the block, with its values
CarriesBlock(item, block) ==
  LET d == yaml_safe_load(block).d
  IN \A key \in DOMAIN d : key \in DOMAIN item /\ item[key] = d[key]

\* C8: for a text whose first line is a delimiter line and that has a second
\* one, the structured block is exactly the lines strictly between the two,
\* and a returned item carries that block and has as content exactly the
\* stripped lines after the second delimiter line; a text that does not
\* begin with a delimiter line gives no item.
C8_BlockBetweenDelimiters ==
  pc = "done" =>
    /\ ~StartsWithDashes(content[1]) => parsed.kind = "none"
    /\ (StartsWithDashes(content[1]) /\ LaterDelimiters(content) # {}) =>
         LET second == SecondDelimiter(content)
             block == SubSeq(content, 2, second - 1)
         IN /\ ExtractFrontMatter(content).front_matter = block
            /\ parsed.kind = "item" =>
                 /\ CarriesBlock(parsed.item, block)
                 /\ parsed.item["content"] =
                      JoinStrip(SubSeq(content, second + 1, Len(content)))

\* an item returned from a text with both delimiter lines and a body
C8_Witness ==
  /\ pc = "done"
  /\ parsed.kind = "item"
  /\ LaterDelimiters(content) # {}
  /\ SecondDelimiter(content) < Len(content)
  /\ parsed.item["content"] = "body"

\* C10: a text that starts with a delimiter line and has no second one is
\* not rejected for that: every line after the first is the structured
\* block, and when the block parses and validates the item is returned, its
\* content being the whole stripped text, opening delimiter and block
\* included.
C10_NoClosingDelimiter ==
  (/\ pc = "done"
   /\ StartsWithDashes(content[1])
   /\ LaterDelimiters(content) = {}) =>
    LET block == Tail(content)
        loaded == yaml_safe_load(block)
    IN /\ ExtractFrontMatter(content).front_matter = block
       /\ (/\ loaded.kind = "dict"
           /\ validate_menu_item(loaded.d).ok) => parsed.kind = "item"
       /\ parsed.kind = "item" =>
            /\ CarriesBlock(parsed.item, block)
            /\ parsed.item["content"] = JoinStrip(content)

\* an item returned from a text without a closing delimiter line
C10_Witness ==
  /\ pc = "done"
  /\ parsed.kind = "item"
  /\ LaterDelimiters(content) = {}
  /\ parsed.item["content"] = "---\ntitle: A\nprice: 5"

=============================================================================
